---- MODULE Spec2Model ----
(***************************************************************************)
(* Model of action-firebase-deploy: the deploy executor (deploy.ts) and    *)
(* the orchestrating run() of the action's entry point.                    *)
(*                                                                         *)
(* Text is a sequence of items.  An item is white space ("ws"), a          *)
(* character that belongs to no JSON value ("junk"), or one complete JSON  *)
(* value ("json").  A stdout chunk is a text.                              *)
(***************************************************************************)
EXTENDS Integers, Sequences, FiniteSets, TLC

\* JavaScript undefined, for optional strings
Undefined == "undefined"

\* JavaScript truthiness of an optional string
Truthy(s) == s # Undefined /\ s # ""

----------------------------------------------------------------------------
(* Bounds *)

\* stdout chunks one process may write
MaxChunks == 2

\* site entries of a channel result handed to interpretChannelDeployResult
MaxSites == 2

----------------------------------------------------------------------------
(* JSON values *)

NoResult == [present |-> FALSE, entries |-> <<>>]

Result(entries) == [present |-> TRUE, entries |-> entries]

SiteDeploy(key, url, expireTime) ==
  [key |-> key, site |-> key, url |-> url, expireTime |-> expireTime]

JsonObject(status, error, result) ==
  [type |-> "object", status |-> status, error |-> error, result |-> result]

JsonNull == [type |-> "null", status |-> Undefined, error |-> Undefined, result |-> NoResult]

T1 == "2024-01-01T00:00:00.000Z"

T2 == "2024-01-02T00:00:00.000Z"

SiteA == SiteDeploy("siteA", "https://a", T1)

SiteB == SiteDeploy("siteB", "https://b", T2)

SuccessTwo == JsonObject("success", Undefined, Result(<<SiteA, SiteB>>))

SuccessEmpty == JsonObject("success", Undefined, Result(<<>>))

ErrorDoc == JsonObject("error", "Deploy failed", NoResult)

NoStatusDoc == JsonObject(Undefined, Undefined, NoResult)

----------------------------------------------------------------------------
(* Text *)

Ws == [kind |-> "ws", val |-> JsonNull]

Junk == [kind |-> "junk", val |-> JsonNull]

Json(v) == [kind |-> "json", val |-> v]

\* sequences over S of length at most n
BSeq(S, n) == UNION {[1..k -> S] : k \in 0..n}

RECURSIVE DropWhile(_, _)
DropWhile(t, kinds) ==
  IF t # <<>> /\ Head(t).kind \in kinds THEN DropWhile(Tail(t), kinds) ELSE t

RECURSIVE DropWhileEnd(_, _)
DropWhileEnd(t, kinds) ==
  IF t # <<>> /\ t[Len(t)].kind \in kinds
    THEN DropWhileEnd(SubSeq(t, 1, Len(t) - 1), kinds)
    ELSE t

\* String.prototype.trim: strips leading and trailing white space
Trim(t) == DropWhileEnd(DropWhile(t, {"ws"}), {"ws"})

\* Buffer.concat(chunks).toString("utf-8")
RECURSIVE Concat(_)
Concat(chunks) == IF chunks = <<>> THEN <<>> ELSE Head(chunks) \o Concat(Tail(chunks))

\* an Error object; call tells the rejections of distinct exec calls apart
\* (0: not thrown by exec)
Err(name, message) == [name |-> name, message |-> message, call |-> 0]

NoError == Err("none", "")

\* JSON.parse: the grammar is ws value ws; anything else is a SyntaxError
JSONparse(t) ==
  LET body == DropWhileEnd(DropWhile(t, {"ws"}), {"ws"})
  IN IF Len(body) = 1 /\ body[1].kind = "json"
       THEN [kind |-> "return", value |-> body[1].val, error |-> NoError]
       ELSE [kind |-> "throw", value |-> JsonNull,
             error |-> Err("SyntaxError", "Unexpected token in JSON")]

----------------------------------------------------------------------------
(* Result interpretation *)

\* canonical array-index property names and their numeric value
ArrayIndex == ("7" :> 7) @@ ("12" :> 12)

IsArrayIndex(key) == key \in DOMAIN ArrayIndex

RECURSIVE InsertByIndex(_, _)
InsertByIndex(sorted, e) ==
  IF sorted = <<>> THEN <<e>>
  ELSE IF ArrayIndex[e.key] < ArrayIndex[Head(sorted).key] THEN <<e>> \o sorted
  ELSE <<Head(sorted)>> \o InsertByIndex(Tail(sorted), e)

RECURSIVE SortByIndex(_)
SortByIndex(es) ==
  IF es = <<>> THEN <<>> ELSE InsertByIndex(SortByIndex(Tail(es)), Head(es))

IndexKeyed(e) == IsArrayIndex(e.key)

StringKeyed(e) == ~IsArrayIndex(e.key)

\* mutation: the values in creation order, whatever the keys
ObjectValuesInCreationOrder(entries) == entries

\* Object.values(o): own enumerable properties, array-index keys first in
\* ascending numeric order, then the other string keys in creation order
ObjectValues(entries) ==
  SortByIndex(SelectSeq(entries, IndexKeyed)) \o SelectSeq(entries, StringKeyed)

\* new Date(expireTime).toUTCString()
ToUTCString(expireTime) ==
  CASE expireTime = T1 -> "Mon, 01 Jan 2024 00:00:00 GMT"
    [] expireTime = T2 -> "Tue, 02 Jan 2024 00:00:00 GMT"
    [] OTHER -> "Invalid Date"

NoInterpretation == [expireTime |-> Undefined, expire_time_formatted |-> Undefined, urls |-> <<>>]

TypeError(message) == Err("TypeError", message)

\* mutation: an empty result is interpreted as no urls and no expiry time
interpretChannelDeployResultLenient(deployResult) ==
  LET allSiteResults == ObjectValues(deployResult.result.entries)
  IN [kind |-> "return",
      value |-> [expireTime |-> IF allSiteResults = <<>> THEN Undefined
                                ELSE allSiteResults[1].expireTime,
                 expire_time_formatted |->
                   IF allSiteResults = <<>> THEN "Invalid Date"
                   ELSE ToUTCString(allSiteResults[1].expireTime),
                 urls |-> [i \in 1..Len(allSiteResults) |-> allSiteResults[i].url]],
      error |-> NoError]

interpretChannelDeployResult(deployResult) ==
  IF ~deployResult.result.present
    THEN [kind |-> "throw", value |-> NoInterpretation,
          error |-> TypeError("Cannot convert undefined or null to object")]
  ELSE LET allSiteResults == ObjectValues(deployResult.result.entries)
       IN IF allSiteResults = <<>>
            THEN [kind |-> "throw", value |-> NoInterpretation,
                  error |-> TypeError("Cannot read properties of undefined (reading 'expireTime')")]
            ELSE LET expireTime == allSiteResults[1].expireTime
                 IN [kind |-> "return",
                     value |-> [expireTime |-> expireTime,
                                expire_time_formatted |-> ToUTCString(expireTime),
                                urls |-> [i \in 1..Len(allSiteResults) |-> allSiteResults[i].url]],
                     error |-> NoError]

----------------------------------------------------------------------------
(* Argument and environment composition *)

NoTargets == [defined |-> FALSE, list |-> <<>>]

Targets(list) == [defined |-> TRUE, list |-> list]

\* Array.prototype.join(",")
RECURSIVE Join(_)
Join(list) ==
  IF list = <<>> THEN ""
  ELSE IF Len(list) = 1 THEN list[1]
  ELSE list[1] \o "," \o Join(Tail(list))

ConfigArgs(config) == IF Truthy(config) THEN <<"--config", config>> ELSE <<>>

\* mutation: the length of the target list is not looked at
OnlyArgsUnguarded(targets) ==
  IF targets.defined THEN <<"--only", Join(targets.list)>> ELSE <<>>

OnlyArgs(targets) ==
  IF targets.defined /\ Len(targets.list) > 0 THEN <<"--only", Join(targets.list)>> ELSE <<>>

ExpiresArgs(expires) == IF Truthy(expires) THEN <<"--expires", expires>> ELSE <<>>

\* the base argument list deployPreview hands to execWithCredentials
PreviewArgs(cfg) ==
  <<"hosting:channel:deploy", cfg.channelId>>
    \o ConfigArgs(cfg.config) \o OnlyArgs(cfg.targets) \o ExpiresArgs(cfg.expires)

\* the base argument list deployProductionSite hands to execWithCredentials
ProductionArgs(cfg) == <<"deploy">> \o ConfigArgs(cfg.config) \o OnlyArgs(cfg.targets)

\* an AuthOptions object
AuthObject(gacFilename, firebaseToken) ==
  [type |-> "object", gacFilename |-> gacFilename, firebaseToken |-> firebaseToken]

\* a string passed where AuthOptions is expected: it has neither property
AuthString(s) == [type |-> "string", gacFilename |-> s, firebaseToken |-> Undefined]

\* auth.gacFilename
GacFilenameOf(auth) == IF auth.type = "object" THEN auth.gacFilename ELSE Undefined

\* auth.firebaseToken
FirebaseTokenOf(auth) == IF auth.type = "object" THEN auth.firebaseToken ELSE Undefined

ProjectArgs(projectId) == IF Truthy(projectId) THEN <<"--project", projectId>> ELSE <<>>

TokenArgs(auth) ==
  IF Truthy(FirebaseTokenOf(auth)) THEN <<"--token", FirebaseTokenOf(auth)>> ELSE <<>>

DebugArg(debug) == IF debug THEN "--debug" ELSE ""

\* mutation: the placeholder is always appended, the flag after it when debugging
ExecArgsBothSlots(args, projectId, auth, debug) ==
  args \o ProjectArgs(projectId) \o TokenArgs(auth) \o <<"">>
    \o (IF debug THEN <<"--debug">> ELSE <<>>)

\* mutation: the flag is left out when not debugging
ExecArgsFlagOmitted(args, projectId, auth, debug) ==
  args \o ProjectArgs(projectId) \o TokenArgs(auth)
    \o (IF debug THEN <<"--debug">> ELSE <<>>)

\* the argument list execWithCredentials hands to exec
ExecArgs(args, projectId, auth, debug) ==
  args \o ProjectArgs(projectId) \o TokenArgs(auth) \o <<DebugArg(debug)>>

EmptyEnv == [n \in {} |-> ""]

\* mutation: the entries of the process environment win over the two added ones
ExecEnvAmbientFirst(env, auth) ==
  env
    @@ (IF Truthy(GacFilenameOf(auth))
          THEN "GOOGLE_APPLICATION_CREDENTIALS" :> GacFilenameOf(auth)
          ELSE EmptyEnv)
    @@ ("FIREBASE_DEPLOY_AGENT" :> "oudyworks-action-firebase-deploy")

\* the env option execWithCredentials hands to exec; later entries override
ExecEnv(env, auth) ==
  (IF Truthy(GacFilenameOf(auth))
     THEN "GOOGLE_APPLICATION_CREDENTIALS" :> GacFilenameOf(auth)
     ELSE EmptyEnv)
    @@ ("FIREBASE_DEPLOY_AGENT" :> "oudyworks-action-firebase-deploy")
    @@ env

\* opts.firebaseToolsVersion || "latest"
ToolsVersion(v) == IF Truthy(v) THEN v ELSE "latest"

CommandLine(version) == "npx firebase-tools@" \o version

----------------------------------------------------------------------------
(* State *)

VARIABLES
  entry,          \* the function the caller entered: "run", "deployPreview", ...
  inputs,         \* run: the action's inputs, part_000:41-61
  deployCall,     \* the arguments of deployPreview / deployProductionSite
  processEnv,     \* process.env
  pc,             \* position of run / of the exported function
  finish,         \* run: "log" (console.log) or "check" (the createCheck callback)
  gacFilename,    \* run: the file name createGacFile returned
  frames,         \* stack of execWithCredentials activations, innermost last
  completion,     \* how the innermost finished call ended, until its caller resumes
  calls,          \* every exec() invocation so far: arguments, env, stdout, exit
  log,            \* console.log lines
  deploymentText, \* outcome of the await at deploy.ts:142 / :168
  deployment,     \* outcome of deployPreview / deployProductionSite
  interpreted,    \* outcome of interpretChannelDeployResult
  thrown,         \* run: the error caught at part_000:195
  outputs,        \* setOutput calls, in order
  comments,       \* postChannelSuccessComment calls completed
  failed,         \* setFailed messages, in order
  finished        \* conclusions passed to finish, in order

vars ==
  <<entry, inputs, deployCall, processEnv, pc, finish, gacFilename, frames, completion,
    calls, log, deploymentText, deployment, interpreted, thrown, outputs, comments, failed,
    finished>>

callerVars ==
  <<entry, inputs, deployCall, processEnv, pc, finish, gacFilename, deploymentText,
    deployment, interpreted, thrown>>

execVars == <<frames, completion, calls, log>>

reportVars == <<outputs, comments, failed, finished>>

NoCompletion == [kind |-> "none", value |-> <<>>, error |-> NoError]

NoDeployment == [kind |-> "none", value |-> JsonNull, error |-> NoError]

NotInterpreted == [kind |-> "none", value |-> NoInterpretation, error |-> NoError]

NoDeployCall ==
  [auth |-> AuthObject(Undefined, Undefined),
   deployConfig |-> [projectId |-> "", targets |-> NoTargets, config |-> Undefined,
                     expires |-> "", channelId |-> "", firebaseToolsVersion |-> Undefined]]

NoActionInputs ==
  [isProductionDeploy |-> FALSE, token |-> FALSE, isPullRequest |-> FALSE,
   projectId |-> "", targets |-> NoTargets, config |-> "", expires |-> "",
   firebaseToolsVersion |-> ""]

\* stdout chunks the external tool may write
ToolChunks ==
  { <<Ws, Json(SuccessTwo), Ws>>, <<Json(SuccessEmpty)>>, <<Json(ErrorDoc)>>,
    <<Json(NoStatusDoc)>> }

InitCommon ==
  /\ finish = "log"
  /\ gacFilename = Undefined
  /\ frames = <<>>
  /\ completion = NoCompletion
  /\ calls = <<>>
  /\ log = <<>>
  /\ deploymentText = NoCompletion
  /\ interpreted = NotInterpreted
  /\ thrown = NoError
  /\ outputs = <<>>
  /\ comments = 0
  /\ failed = <<>>
  /\ finished = <<>>

\* getInput("config") || "firebase.json", part_000:51
ConfigInput(config) == IF Truthy(config) THEN config ELSE "firebase.json"

\* the action's inputs as part_000:41-60 reads them (disableComment, :61, is
\* drawn where run reads it, at :177)
RunInputs ==
  { [isProductionDeploy |-> p, token |-> k, isPullRequest |-> r,
     projectId |-> "proj", targets |-> Targets(<<"a", "b">>), config |-> ConfigInput(""),
     expires |-> "7d", firebaseToolsVersion |-> ""] :
      p \in BOOLEAN, k \in BOOLEAN, r \in BOOLEAN }

Init ==
  /\ entry = "run"
  /\ inputs \in RunInputs
  /\ deployCall = NoDeployCall
  /\ deployment = NoDeployment
  /\ processEnv = ("PATH" :> "/usr/bin")
  /\ pc = "run"
  /\ InitCommon

----------------------------------------------------------------------------
(* execWithCredentials, deploy.ts:77-133 *)

Top == frames[Len(frames)]

Frame(args, projectId, auth, opts) ==
  [args |-> args, projectId |-> projectId, auth |-> auth,
   debug |-> opts.debug, firebaseToolsVersion |-> ToolsVersion(opts.firebaseToolsVersion),
   deployOutputBuf |-> <<>>, at |-> "try", e |-> NoError]

SetTop(f) == [frames EXCEPT ![Len(frames)] = f]

Pop == SubSeq(frames, 1, Len(frames) - 1)

\* mutation: exec is called without await, the function goes on at once
ExecStartNotAwaited ==
  /\ frames # <<>>
  /\ Top.at = "try"
  /\ calls' = Append(calls,
       [commandLine |-> CommandLine(Top.firebaseToolsVersion),
        args |-> ExecArgs(Top.args, Top.projectId, Top.auth, Top.debug),
        env |-> ExecEnv(processEnv, Top.auth),
        debug |-> Top.debug, stdout |-> <<>>, exit |-> "running", error |-> NoError])
  /\ frames' = SetTop([Top EXCEPT !.at = "return"])
  /\ UNCHANGED <<callerVars, reportVars, completion, log>>

\* deploy.ts:88-112, the call of exec
ExecStart ==
  /\ frames # <<>>
  /\ Top.at = "try"
  /\ calls' = Append(calls,
       [commandLine |-> CommandLine(Top.firebaseToolsVersion),
        args |-> ExecArgs(Top.args, Top.projectId, Top.auth, Top.debug),
        env |-> ExecEnv(processEnv, Top.auth),
        debug |-> Top.debug, stdout |-> <<>>, exit |-> "running", error |-> NoError])
  /\ frames' = SetTop([Top EXCEPT !.at = "exec"])
  /\ UNCHANGED <<callerVars, reportVars, completion, log>>

\* deploy.ts:99-103, the stdout listener
ExecStdout(pool) ==
  /\ frames # <<>>
  /\ Top.at = "exec"
  /\ Len(calls[Len(calls)].stdout) < MaxChunks
  /\ \E data \in pool :
       /\ frames' = SetTop([Top EXCEPT !.deployOutputBuf = Append(@, data)])
       /\ calls' = [calls EXCEPT ![Len(calls)].stdout = Append(@, data)]
  /\ UNCHANGED <<callerVars, reportVars, completion, log>>

\* the awaited exec resolves: the process exited with code 0
ExecExitSuccess ==
  /\ frames # <<>>
  /\ Top.at = "exec"
  /\ calls' = [calls EXCEPT ![Len(calls)].exit = "success"]
  /\ frames' = SetTop([Top EXCEPT !.at = "return"])
  /\ UNCHANGED <<callerVars, reportVars, completion, log>>

\* the Error exec rejects with when call number i exits with a non-zero code
ExitError(i) ==
  [name |-> "Error", message |-> "The process 'npx' failed with exit code 1", call |-> i]

\* the awaited exec rejects: the process exited with a non-zero code
ExecExitFailure ==
  /\ frames # <<>>
  /\ Top.at = "exec"
  /\ calls' = [calls EXCEPT ![Len(calls)].exit = "failure",
                            ![Len(calls)].error = ExitError(Len(calls))]
  /\ frames' = SetTop([Top EXCEPT !.at = "catch", !.e = ExitError(Len(calls))])
  /\ UNCHANGED <<callerVars, reportVars, completion, log>>

LogText(t) == [text |-> t, msg |-> ""]

LogMsg(m) == [text |-> <<>>, msg |-> m]

\* mutation: the retry is made without the project id
RetryFrameWithoutProject(f) ==
  Frame(f.args, "", f.auth,
        [debug |-> TRUE, firebaseToolsVersion |-> f.firebaseToolsVersion])

\* mutation: the retry keeps the debug option of the failed attempt
RetryFrameSameDebug(f) ==
  Frame(f.args, f.projectId, f.auth,
        [debug |-> f.debug, firebaseToolsVersion |-> f.firebaseToolsVersion])

\* execWithCredentials(args, projectId, auth, {debug: true, firebaseToolsVersion})
RetryFrame(f) ==
  Frame(f.args, f.projectId, f.auth,
        [debug |-> TRUE, firebaseToolsVersion |-> f.firebaseToolsVersion])

\* deploy.ts:113-128, the catch block
ExecCatch ==
  /\ frames # <<>>
  /\ Top.at = "catch"
  /\ IF ~Top.debug
       THEN /\ log' = log \o <<LogText(Concat(Top.deployOutputBuf)), LogMsg(Top.e.message),
                               LogMsg("Retrying deploy with the --debug flag for better error output")>>
            /\ frames' = Append(SetTop([Top EXCEPT !.at = "retry"]), RetryFrame(Top))
            /\ completion' = completion
       ELSE /\ log' = log \o <<LogText(Concat(Top.deployOutputBuf)), LogMsg(Top.e.message)>>
            /\ frames' = Pop
            /\ completion' = [kind |-> "throw", value |-> <<>>, error |-> Top.e]
  /\ UNCHANGED <<callerVars, reportVars, calls>>

\* mutation: after the retry the caught error is thrown whatever the retry did
ExecRetrySettledRethrows ==
  /\ frames # <<>>
  /\ Top.at = "retry"
  /\ completion.kind # "none"
  /\ frames' = Pop
  /\ completion' = IF completion.kind = "return"
                     THEN [kind |-> "throw", value |-> <<>>, error |-> Top.e]
                     ELSE completion
  /\ UNCHANGED <<callerVars, reportVars, calls, log>>

\* deploy.ts:121-124, the await of the retry settles
ExecRetrySettled ==
  /\ frames # <<>>
  /\ Top.at = "retry"
  /\ completion.kind # "none"
  /\ IF completion.kind = "return"
       THEN /\ frames' = SetTop([Top EXCEPT !.at = "return"])
            /\ completion' = NoCompletion
       ELSE /\ frames' = Pop
            /\ completion' = completion
  /\ UNCHANGED <<callerVars, reportVars, calls, log>>

\* deploy.ts:130-132
LastChunk(deployOutputBuf) ==
  IF Len(deployOutputBuf) > 0 THEN deployOutputBuf[Len(deployOutputBuf)] ELSE <<>>

ExecReturn ==
  /\ frames # <<>>
  /\ Top.at = "return"
  /\ completion' = [kind |-> "return", value |-> LastChunk(Top.deployOutputBuf),
                    error |-> NoError]
  /\ frames' = Pop
  /\ UNCHANGED <<callerVars, reportVars, calls, log>>

----------------------------------------------------------------------------
(* deployPreview and deployProductionSite, deploy.ts:135-184 *)

\* the options both deploy functions pass: { firebaseToolsVersion }, so that
\* opts.debug || false is false
DeployOpts(cfg) == [debug |-> FALSE, firebaseToolsVersion |-> cfg.firebaseToolsVersion]

\* deploy.ts:139-153
DeployPreviewCall ==
  /\ pc = "deployPreview"
  /\ frames' = <<Frame(PreviewArgs(deployCall.deployConfig), deployCall.deployConfig.projectId,
                       deployCall.auth, DeployOpts(deployCall.deployConfig))>>
  /\ pc' = "awaitPreview"
  /\ UNCHANGED <<entry, inputs, deployCall, processEnv, finish, gacFilename, completion,
                 calls, log, deploymentText, deployment, interpreted, thrown, reportVars>>

\* deploy.ts:166-177
DeployProductionSiteCall ==
  /\ pc = "deployProductionSite"
  /\ frames' = <<Frame(ProductionArgs(deployCall.deployConfig),
                       deployCall.deployConfig.projectId,
                       deployCall.auth, DeployOpts(deployCall.deployConfig))>>
  /\ pc' = "awaitProduction"
  /\ UNCHANGED <<entry, inputs, deployCall, processEnv, finish, gacFilename, completion,
                 calls, log, deploymentText, deployment, interpreted, thrown, reportVars>>

Rethrow(c) == [kind |-> "throw", value |-> JsonNull, error |-> c.error]

\* deploy.ts:155, JSON.parse(deploymentText.trim())
ParsePreview(deploymentTextValue) == JSONparse(Trim(deploymentTextValue))

\* deploy.ts:179, JSON.parse(deploymentText)
ParseProduction(deploymentTextValue) == JSONparse(deploymentTextValue)

Returned == IF entry = "run" THEN "deployed" ELSE "done"

\* mutation: text that does not parse makes deployPreview run the tool again
DeployPreviewParseRetrying ==
  /\ pc = "awaitPreview"
  /\ frames = <<>>
  /\ completion.kind # "none"
  /\ deploymentText' = completion
  /\ completion' = NoCompletion
  /\ IF completion.kind = "return" /\ ParsePreview(completion.value).kind = "throw"
       THEN /\ frames' = <<Frame(PreviewArgs(deployCall.deployConfig),
                                 deployCall.deployConfig.projectId, deployCall.auth,
                                 DeployOpts(deployCall.deployConfig))>>
            /\ UNCHANGED <<deployment, pc>>
       ELSE /\ deployment' = IF completion.kind = "throw" THEN Rethrow(completion)
                             ELSE ParsePreview(completion.value)
            /\ pc' = Returned
            /\ frames' = frames
  /\ UNCHANGED <<entry, inputs, deployCall, processEnv, finish, gacFilename,
                 calls, log, interpreted, thrown, reportVars>>

\* deploy.ts:142 and 155-159: the await settles, the text is parsed and returned
DeployPreviewParse ==
  /\ pc = "awaitPreview"
  /\ frames = <<>>
  /\ completion.kind # "none"
  /\ deploymentText' = completion
  /\ deployment' = IF completion.kind = "throw" THEN Rethrow(completion)
                   ELSE ParsePreview(completion.value)
  /\ completion' = NoCompletion
  /\ pc' = Returned
  /\ UNCHANGED <<entry, inputs, deployCall, processEnv, finish, gacFilename, frames,
                 calls, log, interpreted, thrown, reportVars>>

\* deploy.ts:168 and 179-183
DeployProductionSiteParse ==
  /\ pc = "awaitProduction"
  /\ frames = <<>>
  /\ completion.kind # "none"
  /\ deploymentText' = completion
  /\ deployment' = IF completion.kind = "throw" THEN Rethrow(completion)
                   ELSE ParseProduction(completion.value)
  /\ completion' = NoCompletion
  /\ pc' = Returned
  /\ UNCHANGED <<entry, inputs, deployCall, processEnv, finish, gacFilename, frames,
                 calls, log, interpreted, thrown, reportVars>>

\* a direct call of the exported interpretChannelDeployResult
InterpretCall ==
  /\ pc = "interpretChannelDeployResult"
  /\ interpreted' = interpretChannelDeployResult(deployment.value)
  /\ pc' = "done"
  /\ UNCHANGED <<entry, inputs, deployCall, processEnv, finish, gacFilename, execVars,
                 deploymentText, deployment, thrown, reportVars>>

----------------------------------------------------------------------------
(* run, part_000:63-206 *)

UsesCheck == inputs.token /\ inputs.isPullRequest

\* part_000:64-69; createCheck is awaited outside the try block
RunCreateCheck ==
  /\ pc = "run"
  /\ IF UsesCheck
       THEN \/ finish' = "check" /\ pc' = "verify"
            \/ finish' = finish /\ pc' = "rejected"
       ELSE finish' = "log" /\ pc' = "verify"
  /\ UNCHANGED <<entry, inputs, deployCall, processEnv, gacFilename, execVars,
                 deploymentText, deployment, interpreted, thrown, reportVars>>

\* part_000:72-90
RunVerify ==
  /\ pc = "verify"
  /\ \/ pc' = "credentials" /\ thrown' = thrown
     \/ pc' = "catch" /\ thrown' = Err("Error", "Error changing to directory")
     \/ pc' = "catch" /\ thrown' = Err("Error", inputs.config \o " file not found.")
  /\ UNCHANGED <<entry, inputs, deployCall, processEnv, finish, gacFilename, execVars,
                 deploymentText, deployment, interpreted, reportVars>>

\* the channel id getChannelId derives for a preview deploy
ChannelIds == {"pr1"}

\* part_000:92-97, then the call at :101 or :152-162; the file name itself is
\* passed where the deploy functions expect their AuthOptions
RunCreateGacFile ==
  /\ pc = "credentials"
  /\ \/ /\ gacFilename' = "/tmp/gac.json"
        /\ \E channelId \in ChannelIds :
             deployCall' =
               [auth |-> AuthString("/tmp/gac.json"),
                deployConfig |->
                  [projectId |-> inputs.projectId, targets |-> inputs.targets,
                   config |-> inputs.config,
                   expires |-> IF inputs.isProductionDeploy THEN "" ELSE inputs.expires,
                   channelId |-> IF inputs.isProductionDeploy THEN "" ELSE channelId,
                   firebaseToolsVersion |-> inputs.firebaseToolsVersion]]
        /\ pc' = IF inputs.isProductionDeploy THEN "deployProductionSite" ELSE "deployPreview"
        /\ thrown' = thrown
     \/ /\ pc' = "catch"
        /\ thrown' = Err("Error", "createGacFile failed")
        /\ UNCHANGED <<gacFilename, deployCall>>
  /\ UNCHANGED <<entry, inputs, processEnv, finish, execVars, deploymentText, deployment,
                 interpreted, reportVars>>

\* part_000:107-110 and :164-167: a rejected deploy lands in the catch block,
\* reading .status of null throws, an Error variant is thrown as Error(error)
RunCheckDeployment ==
  /\ pc = "deployed"
  /\ IF deployment.kind = "throw"
       THEN pc' = "catch" /\ thrown' = deployment.error
     ELSE IF deployment.value.type = "null"
       THEN pc' = "catch"
            /\ thrown' = TypeError("Cannot read properties of null (reading 'status')")
     ELSE IF deployment.value.status = "error"
       THEN pc' = "catch" /\ thrown' = Err("Error", deployment.value.error)
     ELSE /\ pc' = IF inputs.isProductionDeploy THEN "finishProduction" ELSE "interpret"
          /\ thrown' = thrown
  /\ UNCHANGED <<entry, inputs, deployCall, processEnv, finish, gacFilename, execVars,
                 deploymentText, deployment, interpreted, reportVars>>

\* urls[0]: the first element, undefined on an empty array
ElementZero(array) == IF array = <<>> THEN Undefined ELSE array[1]

\* a setOutput call; value is a list of strings (a single string is a list of one)
SetOutput(name, value) == [name |-> name, value |-> value]

\* part_000:169-175
RunInterpret ==
  /\ pc = "interpret"
  /\ interpreted' = interpretChannelDeployResult(deployment.value)
  /\ IF interpreted'.kind = "throw"
       THEN pc' = "catch" /\ thrown' = interpreted'.error /\ outputs' = outputs
       ELSE /\ pc' = "comment"
            /\ thrown' = thrown
            /\ outputs' = outputs \o
                 << SetOutput("urls", interpreted'.value.urls),
                    SetOutput("expire_time", <<interpreted'.value.expireTime>>),
                    SetOutput("expire_time_formatted",
                              <<interpreted'.value.expire_time_formatted>>),
                    SetOutput("details_url", <<ElementZero(interpreted'.value.urls)>>) >>
  /\ UNCHANGED <<entry, inputs, deployCall, processEnv, finish, gacFilename, execVars,
                 deploymentText, deployment, comments, failed, finished>>

\* part_000:177-185
RunComment ==
  /\ pc = "comment"
  /\ \E disableComment \in {"", "true"} :
       IF disableComment # "true" /\ UsesCheck
         THEN \/ comments' = comments + 1 /\ pc' = "finishPreview" /\ thrown' = thrown
              \/ /\ pc' = "catch"
                 /\ thrown' = Err("HttpError", "postChannelSuccessComment failed")
                 /\ comments' = comments
         ELSE comments' = comments /\ pc' = "finishPreview" /\ thrown' = thrown
  /\ UNCHANGED <<entry, inputs, deployCall, processEnv, finish, gacFilename, execVars,
                 deploymentText, deployment, interpreted, outputs, failed, finished>>

Finish(conclusion, details_url) == [conclusion |-> conclusion, details_url |-> details_url]

\* part_000:113-114
ProductionUrl == "https://" \o inputs.projectId \o ".web.app/"

\* part_000:141-149 and :187-194; the check callback may reject
RunFinishSuccess ==
  /\ pc \in {"finishProduction", "finishPreview"}
  /\ LET details_url == IF pc = "finishProduction" THEN ProductionUrl
                        ELSE ElementZero(interpreted.value.urls)
     IN \/ /\ finished' = Append(finished, Finish("success", details_url))
           /\ pc' = "done"
           /\ thrown' = thrown
        \/ /\ finish = "check"
           /\ finished' = finished
           /\ pc' = "catch"
           /\ thrown' = Err("HttpError", "finish failed")
  /\ UNCHANGED <<entry, inputs, deployCall, processEnv, finish, gacFilename, execVars,
                 deploymentText, deployment, interpreted, outputs, comments, failed>>

\* mutation: the catch block reports the failure but does not call finish
RunCatchWithoutFinish ==
  /\ pc = "catch"
  /\ failed' = Append(failed, thrown.message)
  /\ finished' = finished
  /\ pc' = "done"
  /\ UNCHANGED <<entry, inputs, deployCall, processEnv, finish, gacFilename, execVars,
                 deploymentText, deployment, interpreted, thrown, outputs, comments>>

\* part_000:195-205
RunCatch ==
  /\ pc = "catch"
  /\ failed' = Append(failed, thrown.message)
  /\ \/ finished' = Append(finished, Finish("failure", Undefined)) /\ pc' = "done"
     \/ finish = "check" /\ finished' = finished /\ pc' = "rejected"
  /\ UNCHANGED <<entry, inputs, deployCall, processEnv, finish, gacFilename, execVars,
                 deploymentText, deployment, interpreted, thrown, outputs, comments>>

----------------------------------------------------------------------------
(* Specifications *)

Exec(pool) ==
  \/ ExecStart
  \/ ExecStdout(pool)
  \/ ExecExitSuccess
  \/ ExecExitFailure
  \/ ExecCatch
  \/ ExecRetrySettled
  \/ ExecReturn

Deploy ==
  \/ DeployPreviewCall
  \/ DeployPreviewParse
  \/ DeployProductionSiteCall
  \/ DeployProductionSiteParse

Run ==
  \/ RunCreateCheck
  \/ RunVerify
  \/ RunCreateGacFile
  \/ RunCheckDeployment
  \/ RunInterpret
  \/ RunComment
  \/ RunFinishSuccess
  \/ RunCatch

Next == Run \/ Deploy \/ Exec(ToolChunks)

\* one run of the action
Spec == Init /\ [][Next]_vars

----------------------------------------------------------------------------
(* Direct calls of the exported deploy functions *)

\* stdout chunks of the external tool when the deploy functions are called directly
DeployChunks == { <<Ws, Json(SuccessTwo), Ws>>, <<Junk, Junk>> }

AuthContexts ==
  { AuthObject(g, t) : g \in {Undefined, "/tmp/gac.json"}, t \in {Undefined, "tok"} }

DeployConfigs(isPreview) ==
  { [projectId |-> p, targets |-> t, config |-> c, expires |-> e,
     channelId |-> IF isPreview THEN "preview-1" ELSE "",
     firebaseToolsVersion |-> Undefined] :
      p \in {"", "proj"},
      t \in {NoTargets, Targets(<<>>), Targets(<<"a", "b">>)},
      c \in {Undefined, "firebase.json"},
      e \in IF isPreview THEN {"", "7d"} ELSE {""} }

ProcessEnvs ==
  { "PATH" :> "/usr/bin",
    ("PATH" :> "/usr/bin") @@ ("GOOGLE_APPLICATION_CREDENTIALS" :> "/ambient.json") }

InitDeploy ==
  /\ entry \in {"deployPreview", "deployProductionSite"}
  /\ inputs = NoActionInputs
  /\ deployCall \in
       { [auth |-> a, deployConfig |-> c] :
           a \in AuthContexts, c \in DeployConfigs(entry = "deployPreview") }
  /\ deployment = NoDeployment
  /\ processEnv \in ProcessEnvs
  /\ pc = entry
  /\ InitCommon

NextDeploy == Deploy \/ Exec(DeployChunks)

\* one call of deployPreview or deployProductionSite
SpecDeploy == InitDeploy /\ [][NextDeploy]_vars

----------------------------------------------------------------------------
(* Direct calls of the exported interpretChannelDeployResult *)

SiteKeys == {"siteA", "siteB", "7", "12"}

ExpireTimes == {T1, T2}

SiteDeploys == { SiteDeploy(k, "https://" \o k, t) : k \in SiteKeys, t \in ExpireTimes }

\* the entries of a parsed result object, in creation order; keys are distinct
SiteLists ==
  { es \in BSeq(SiteDeploys, MaxSites) :
      \A i, j \in 1..Len(es) : i # j => es[i].key # es[j].key }

InitInterpret ==
  /\ entry = "interpretChannelDeployResult"
  /\ inputs = NoActionInputs
  /\ deployCall = NoDeployCall
  /\ \E es \in SiteLists :
       deployment = [kind |-> "return",
                     value |-> JsonObject("success", Undefined, Result(es)),
                     error |-> NoError]
  /\ processEnv = ("PATH" :> "/usr/bin")
  /\ pc = entry
  /\ InitCommon

NextInterpret == InterpretCall

\* one call of interpretChannelDeployResult
SpecInterpret == InitInterpret /\ [][NextInterpret]_vars

----------------------------------------------------------------------------
(* Properties of execWithCredentials *)

Calls == 1..Len(calls)

\* the outermost execWithCredentials call has settled
Settled == deploymentText.kind # "none"

HasArg(args, a) == \E k \in 1..Len(args) : args[k] = a

\* C1: the tool is invoked at most twice; a second invocation happens iff the
\* first ran with debug=false and failed, and it runs with debug=true; a
\* failure of an invocation that ran with debug=true is followed by no further
\* invocation and is the error the caller receives.
RetryPolicy ==
  /\ Len(calls) <= 2
  /\ Len(calls) = 2 => ~calls[1].debug /\ calls[1].exit = "failure" /\ calls[2].debug
  /\ (Settled /\ Len(calls) >= 1 /\ ~calls[1].debug /\ calls[1].exit = "failure")
       => Len(calls) = 2
  /\ \A i \in Calls :
       (calls[i].debug /\ calls[i].exit = "failure")
         => /\ i = Len(calls)
            /\ Settled => deploymentText.kind = "throw" /\ deploymentText.error = calls[i].error

\* C1 witness: both invocations failed and the second error reached the caller
RetryPolicyWitness ==
  /\ Len(calls) = 2
  /\ calls[1].exit = "failure"
  /\ calls[2].exit = "failure"
  /\ deploymentText.kind = "throw"
  /\ deploymentText.error = calls[2].error
  /\ deploymentText.error # calls[1].error

\* text t is what was captured from an invocation that wrote these chunks
CapturedFrom(t, chunks) ==
  \/ chunks = <<>> /\ t = <<>>
  \/ \E k \in 1..Len(chunks) : chunks[k] = t

\* C2: whenever execWithCredentials returns normally, the text it returns was
\* captured from an invocation that exited successfully.
ReturnsOnlySuccessfulOutput ==
  deploymentText.kind = "return"
    => \E i \in Calls :
         calls[i].exit = "success" /\ CapturedFrom(deploymentText.value, calls[i].stdout)

\* C6: once an invocation of the tool has exited successfully, no further
\* invocation is issued in the same deploy call, whatever parsing then yields.
NoReissueAfterSuccess ==
  \A i \in Calls : calls[i].exit = "success" => i = Len(calls)

\* C6 witness: the tool exited successfully, its output did not parse, the
\* call is over and the tool was not invoked again
NoReissueWitness ==
  /\ pc = "done"
  /\ calls # <<>>
  /\ calls[Len(calls)].exit = "success"
  /\ deployment.kind = "throw"
  /\ deployment.error.name = "SyntaxError"

\* C7 as stated: "--debug" is in the argument list iff debug is true, and no
\* empty-string argument appears anywhere in the list.
DebugFlagOrOmitted ==
  \A i \in Calls :
    /\ HasArg(calls[i].args, "--debug") <=> calls[i].debug
    /\ ~HasArg(calls[i].args, "")

\* C7 amended: the last argument is "--debug" iff debug is true, and when
\* debug is false the last argument is the empty string (a placeholder takes
\* the flag's place; the flag is not omitted).
DebugFlagOrPlaceholder ==
  \A i \in Calls :
    LET args == calls[i].args
    IN /\ args[Len(args)] = "--debug" <=> calls[i].debug
       /\ ~calls[i].debug => args[Len(args)] = ""

\* C7 witness: a non-debug invocation and its debug retry have both been issued
DebugFlagWitness ==
  /\ Len(calls) = 2
  /\ ~calls[1].debug
  /\ calls[2].debug

\* C9: when an invocation exits successfully having written c1..cn, the text
\* returned is cn trimmed; with no chunk it is the empty string.
ReturnsLastChunkTrimmed ==
  deploymentText.kind = "return"
    => \E i \in Calls :
         /\ calls[i].exit = "success"
         /\ deploymentText.value = Trim(LastChunk(calls[i].stdout))

----------------------------------------------------------------------------
(* Properties of the deploy functions and of run *)

\* the text is not the JSON of a DeployResult: not valid JSON, or no status
\* field equal to "success" or "error"
Malformed(t) ==
  LET parsed == JSONparse(t)
  IN \/ parsed.kind = "throw"
     \/ parsed.value.type # "object"
     \/ parsed.value.status \notin {"success", "error"}

DeployReturned == deployment.kind = "return"

\* one of the core error kinds has occurred in this run
CoreErrorOccurred ==
  \/ deploymentText.kind = "throw"
  \/ deploymentText.kind = "return" /\ Malformed(deploymentText.value)
  \/ DeployReturned /\ deployment.value.status = "error"
  \/ /\ DeployReturned
     /\ ~inputs.isProductionDeploy
     /\ deployment.value.status = "success"
     /\ deployment.value.result.present
     /\ deployment.value.result.entries = <<>>

ReportedSuccess == \E k \in 1..Len(finished) : finished[k].conclusion = "success"

\* C3: in a run in which a core error kind occurs no output is set, no success
\* comment is posted, the check is never closed with "success", and the run
\* ends with setFailed and a finish call with conclusion "failure".
NoSuccessAfterCoreError ==
  CoreErrorOccurred
    => /\ outputs = <<>>
       /\ comments = 0
       /\ ~ReportedSuccess
       /\ pc = "done"
            => /\ failed # <<>>
               /\ finished # <<>>
               /\ finished[Len(finished)].conclusion = "failure"

\* what the deploy function of this call makes of the tool's output
ParseOutput(t) == IF entry = "deployPreview" \/ (entry = "run" /\ ~inputs.isProductionDeploy)
                    THEN JSONparse(Trim(t))
                    ELSE JSONparse(t)

IsErrorVariant(parsed) ==
  parsed.kind = "return" /\ parsed.value.type = "object" /\ parsed.value.status = "error"

\* C4: when the tool exits successfully and its output parses to
\* {status: "error", error: m}, the deploy function returns that Error variant
\* as a normal value and run ends with setFailed(m) and conclusion "failure".
ErrorVariantFailsRun ==
  \A i \in Calls :
    LET parsed == ParseOutput(LastChunk(calls[i].stdout))
    IN (calls[i].exit = "success" /\ IsErrorVariant(parsed))
         => /\ deployment.kind # "none"
                 => DeployReturned /\ deployment.value = parsed.value
            /\ pc = "done"
                 => /\ failed = <<parsed.value.error>>
                    /\ finished = <<Finish("failure", Undefined)>>

\* C5: a deploy function either fails or returns a value whose status is
\* exactly "success" or "error", with the matching shape.
ReturnsTaggedResult ==
  DeployReturned
    => /\ deployment.value.type = "object"
       /\ \/ /\ deployment.value.status = "success"
             /\ deployment.value.result.present
             /\ deployment.value.error = Undefined
          \/ /\ deployment.value.status = "error"
             /\ deployment.value.error # Undefined
             /\ ~deployment.value.result.present

----------------------------------------------------------------------------
(* Argument composition *)

\* a flag with its value, present iff the condition holds
Optional(present, flag, value) == IF present THEN <<flag, value>> ELSE <<>>

\* the targets separated by commas
RECURSIVE CommaSeparated(_)
CommaSeparated(list) ==
  IF Len(list) <= 1 THEN (IF list = <<>> THEN "" ELSE list[1])
  ELSE CommaSeparated(SubSeq(list, 1, Len(list) - 1)) \o "," \o list[Len(list)]

\* the arguments the claim prescribes for a deploy call, the debug slot aside
PrescribedArgs(isPreview, auth, cfg) ==
  (IF isPreview THEN <<"hosting:channel:deploy", cfg.channelId>> ELSE <<"deploy">>)
    \o Optional(cfg.config \notin {Undefined, ""}, "--config", cfg.config)
    \o Optional(cfg.targets.defined /\ cfg.targets.list # <<>>, "--only",
                CommaSeparated(cfg.targets.list))
    \o Optional(isPreview /\ cfg.expires \notin {Undefined, ""}, "--expires", cfg.expires)
    \o Optional(cfg.projectId # "", "--project", cfg.projectId)
    \o Optional(auth.firebaseToken # Undefined, "--token", auth.firebaseToken)

IsExampleConfig(cfg) ==
  /\ cfg.targets = Targets(<<"a", "b">>)
  /\ cfg.config = "firebase.json"
  /\ cfg.expires = "7d"
  /\ cfg.channelId = "preview-1"

\* C8: every invocation carries, in order, the verb (and channel id for a
\* preview), --config iff set, --only with the comma-joined targets iff
\* non-empty, --expires iff set (preview only), --project iff non-empty and
\* --token iff a token is present; the example config composes to the example
\* list.
ArgumentComposition ==
  \A i \in Calls :
    LET args == calls[i].args
        cfg == deployCall.deployConfig
    IN /\ SubSeq(args, 1, Len(args) - 1)
            = PrescribedArgs(entry = "deployPreview", deployCall.auth, cfg)
       /\ (entry = "deployPreview" /\ IsExampleConfig(cfg))
            => SubSeq(args, 1, 8)
                 = <<"hosting:channel:deploy", "preview-1", "--config", "firebase.json",
                     "--only", "a,b", "--expires", "7d">>

\* C8 witness: the tool has been invoked for the example preview config with
\* a project id and a token: 8 base arguments, 4 more and the debug slot
ArgumentCompositionWitness ==
  /\ calls # <<>>
  /\ entry = "deployPreview"
  /\ IsExampleConfig(deployCall.deployConfig)
  /\ deployCall.deployConfig.projectId = "proj"
  /\ deployCall.auth.firebaseToken = "tok"
  /\ Len(calls[1].args) = 13

----------------------------------------------------------------------------
(* Properties of interpretChannelDeployResult *)

SiteEntries == deployment.value.result.entries

\* C10 as stated: expireTime is that of the first entry in insertion order and
\* urls are the urls of all entries in insertion order.
FirstInsertedEntry ==
  (pc = "done" /\ Len(SiteEntries) >= 1)
    => /\ interpreted.kind = "return"
       /\ interpreted.value.expireTime = SiteEntries[1].expireTime
       /\ interpreted.value.urls = [k \in 1..Len(SiteEntries) |-> SiteEntries[k].url]

\* entry number a comes before entry number b when the object is iterated:
\* array-index keys first, in ascending numeric order, then the other keys in
\* insertion order
IteratedBefore(a, b) ==
  LET ka == SiteEntries[a].key
      kb == SiteEntries[b].key
  IN \/ IsArrayIndex(ka) /\ ~IsArrayIndex(kb)
     \/ IsArrayIndex(ka) /\ IsArrayIndex(kb) /\ ArrayIndex[ka] < ArrayIndex[kb]
     \/ ~IsArrayIndex(ka) /\ ~IsArrayIndex(kb) /\ a < b

\* position of entry number a in iteration order
IterationPosition(a) ==
  1 + Cardinality({b \in 1..Len(SiteEntries) : IteratedBefore(b, a)})

\* C10 amended: expireTime is that of the first entry in iteration order and
\* urls holds the url of every entry, one per entry, in iteration order.
FirstIteratedEntry ==
  (pc = "done" /\ Len(SiteEntries) >= 1)
    => /\ interpreted.kind = "return"
       /\ Len(interpreted.value.urls) = Len(SiteEntries)
       /\ \A a \in 1..Len(SiteEntries) :
            /\ interpreted.value.urls[IterationPosition(a)] = SiteEntries[a].url
            /\ IterationPosition(a) = 1
                 => interpreted.value.expireTime = SiteEntries[a].expireTime

\* C10 witness: two sites with different expiry times, the second inserted
\* one under an array-index key, have been interpreted
FirstIteratedEntryWitness ==
  /\ pc = "done"
  /\ interpreted.kind = "return"
  /\ Len(SiteEntries) = 2
  /\ SiteEntries[1].expireTime # SiteEntries[2].expireTime
  /\ ~IsArrayIndex(SiteEntries[1].key)
  /\ IsArrayIndex(SiteEntries[2].key)
  /\ interpreted.value.expireTime = SiteEntries[2].expireTime

----------------------------------------------------------------------------
(* The empty channel result *)

\* run has handed a channel success result without site entries to
\* interpretChannelDeployResult
InterpretedEmptyResult ==
  /\ entry = "run"
  /\ interpreted.kind # "none"
  /\ deployment.value.status = "success"
  /\ deployment.value.result.present
  /\ deployment.value.result.entries = <<>>

----------------------------------------------------------------------------
(* One deploy invocation as a state machine *)

\* one deploy call with the example config; every step that can be taken is
\* eventually taken: the event loop runs each continuation that is ready, and
\* every external process eventually exits
InitInvocation ==
  /\ entry \in {"deployPreview", "deployProductionSite"}
  /\ inputs = NoActionInputs
  /\ deployCall \in
       { [auth |-> AuthObject("/tmp/gac.json", "tok"), deployConfig |-> c] :
           c \in { d \in DeployConfigs(entry = "deployPreview") :
                     /\ d.projectId = "proj"
                     /\ d.targets = Targets(<<"a", "b">>)
                     /\ d.config = "firebase.json" } }
  /\ deployment = NoDeployment
  /\ processEnv = ("PATH" :> "/usr/bin")
  /\ pc = entry
  /\ InitCommon

SpecInvocation == InitInvocation /\ [][NextDeploy]_vars /\ WF_vars(NextDeploy)

\* how the outermost execWithCredentials call ended: "none", "return", "throw"
Outcome ==
  IF frames = <<>> /\ completion.kind # "none" THEN completion.kind
  ELSE deploymentText.kind

\* the state of the invocation
Phase ==
  CASE Outcome = "return" -> "Success"
    [] Outcome = "throw" -> "Fatal"
    [] Outcome = "none" /\ calls = <<>> -> "Init"
    [] Outcome = "none" /\ Len(calls) = 1 /\ calls[1].exit # "failure" -> "Invoking"
    [] Outcome = "none" /\ Len(calls) = 1 /\ calls[1].exit = "failure" -> "Retrying"
    [] OTHER -> "InvokingDebug"

PhaseTransitions ==
  { <<"Init", "Invoking">>, <<"Invoking", "Success">>, <<"Invoking", "Retrying">>,
    <<"Retrying", "InvokingDebug">>, <<"InvokingDebug", "Success">>,
    <<"InvokingDebug", "Fatal">> }

SomeCallSucceeded == \E i \in Calls : calls[i].exit = "success"

\* C12: the invocation moves only along Init -> Invoking -> {Success,
\* Retrying -> Invoking(debug=true) -> {Success, Fatal}}; it eventually reaches
\* Success or Fatal; nothing leaves Success or Fatal; Retrying is entered at
\* most once; a successful exit of either attempt leads to Success, never to
\* Fatal.
InvocationStateMachine ==
  /\ [][Phase' = Phase \/ <<Phase, Phase'>> \in PhaseTransitions]_vars
  /\ [][(Phase # "Retrying" /\ Phase' = "Retrying") => Len(calls) = 1 /\ ~calls[1].debug]_vars
  /\ [](Phase = "InvokingDebug" => Len(calls) = 2 /\ calls[2].debug)
  /\ [](SomeCallSucceeded => Phase # "Fatal")
  /\ SomeCallSucceeded ~> (Phase = "Success")
  /\ <>(Phase \in {"Success", "Fatal"})

\* C12 witness: the first attempt failed, the debug retry exited successfully
\* and the invocation has reached Success
InvocationWitness ==
  /\ Phase = "Success"
  /\ Len(calls) = 2
  /\ calls[1].exit = "failure"
  /\ calls[2].exit = "success"
  /\ pc = "done"

----------------------------------------------------------------------------
(* The retry repeats the first attempt *)

\* the argument list the deploy function builds for the call
BaseArgs ==
  IF entry = "deployPreview" THEN PreviewArgs(deployCall.deployConfig)
  ELSE ProductionArgs(deployCall.deployConfig)

\* an argument list without its last element, the debug slot
WithoutDebugSlot(args) == SubSeq(args, 1, Len(args) - 1)

\* C13: the retry is the first attempt again but for the debug flag: both
\* activations of execWithCredentials hold the caller's argument list, project
\* id, AuthContext and tool version; the second invocation has the command
\* line, the arguments up to the debug slot and the environment of the first;
\* and the caller's DeployConfig, AuthContext and process environment are the
\* same after every step.
RetryIdentical ==
  /\ [](\A i \in 1..Len(frames) :
          /\ frames[i].args = BaseArgs
          /\ frames[i].projectId = deployCall.deployConfig.projectId
          /\ frames[i].auth = deployCall.auth
          /\ frames[i].firebaseToolsVersion
               = ToolsVersion(deployCall.deployConfig.firebaseToolsVersion))
  /\ [](Len(calls) = 2 =>
          /\ calls[2].commandLine = calls[1].commandLine
          /\ WithoutDebugSlot(calls[2].args) = WithoutDebugSlot(calls[1].args)
          /\ Len(calls[2].args) = Len(calls[1].args)
          /\ calls[2].env = calls[1].env
          /\ ~calls[1].debug /\ calls[2].debug)
  /\ [](\A i \in Calls :
          /\ WithoutDebugSlot(calls[i].args)
               = BaseArgs \o ProjectArgs(deployCall.deployConfig.projectId)
                          \o TokenArgs(deployCall.auth)
          /\ calls[i].env = ExecEnv(processEnv, deployCall.auth))
  /\ [][deployCall' = deployCall /\ processEnv' = processEnv /\ entry' = entry]_vars

\* C13 witness: a call with project id, token and credential file was retried
\* and has returned to its caller
RetryIdenticalWitness ==
  /\ Len(calls) = 2
  /\ Settled
  /\ pc = "done"
  /\ deployCall.deployConfig.projectId = "proj"
  /\ deployCall.auth = AuthObject("/tmp/gac.json", "tok")
  /\ HasArg(calls[2].args, "--project")
  /\ HasArg(calls[2].args, "--token")

----------------------------------------------------------------------------
(* The environment of the tool *)

HasCredentialRef == Truthy(GacFilenameOf(deployCall.auth))

HasAgentEntry(env) ==
  /\ "FIREBASE_DEPLOY_AGENT" \in DOMAIN env
  /\ env["FIREBASE_DEPLOY_AGENT"] = "oudyworks-action-firebase-deploy"

\* C14 as stated: every invocation's environment has the deploy-agent entry,
\* and has GOOGLE_APPLICATION_CREDENTIALS if and only if the AuthContext has a
\* credential file reference, its value then being that reference.
EnvCredentialIff ==
  \A i \in Calls :
    /\ HasAgentEntry(calls[i].env)
    /\ "GOOGLE_APPLICATION_CREDENTIALS" \in DOMAIN calls[i].env <=> HasCredentialRef
    /\ HasCredentialRef
         => calls[i].env["GOOGLE_APPLICATION_CREDENTIALS"] = GacFilenameOf(deployCall.auth)

\* C14: every invocation's environment, first attempt and debug retry alike,
\* has the deploy-agent entry; when the AuthContext has a credential file
\* reference GOOGLE_APPLICATION_CREDENTIALS is that reference; when it has
\* none the variable is what the process environment makes it: present exactly
\* when the process environment has it, with the value it has there.
EnvCredentialOverlay ==
  \A i \in Calls :
    LET env == calls[i].env
    IN /\ HasAgentEntry(env)
       /\ HasCredentialRef
            => /\ "GOOGLE_APPLICATION_CREDENTIALS" \in DOMAIN env
               /\ env["GOOGLE_APPLICATION_CREDENTIALS"] = GacFilenameOf(deployCall.auth)
       /\ ~HasCredentialRef
            => /\ "GOOGLE_APPLICATION_CREDENTIALS" \in DOMAIN env
                    <=> "GOOGLE_APPLICATION_CREDENTIALS" \in DOMAIN processEnv
               /\ "GOOGLE_APPLICATION_CREDENTIALS" \in DOMAIN env
                    => env["GOOGLE_APPLICATION_CREDENTIALS"]
                         = processEnv["GOOGLE_APPLICATION_CREDENTIALS"]

\* C14 witness: the process environment names another credential file, the
\* AuthContext has a reference, and both attempts were given the reference
EnvCredentialWitness ==
  /\ Len(calls) = 2
  /\ HasCredentialRef
  /\ "GOOGLE_APPLICATION_CREDENTIALS" \in DOMAIN processEnv
  /\ processEnv["GOOGLE_APPLICATION_CREDENTIALS"] # GacFilenameOf(deployCall.auth)
  /\ \A i \in Calls :
       calls[i].env["GOOGLE_APPLICATION_CREDENTIALS"] = GacFilenameOf(deployCall.auth)

----------------------------------------------------------------------------
(* One process at a time *)

\* the invocations whose process has not exited
InFlight == { i \in Calls : calls[i].exit = "running" }

\* C15: at most one process is in flight; an invocation is followed by another
\* only once it has exited with failure; while a process is in flight the
\* deploy function is suspended in the activation that started it; and once
\* execWithCredentials or the deploy function has returned or thrown, every
\* process has exited.
OneProcessAtATime ==
  /\ Cardinality(InFlight) <= 1
  /\ \A i \in Calls : i < Len(calls) => calls[i].exit = "failure"
  /\ InFlight # {} => /\ frames # <<>>
                      /\ Top.at = "exec"
                      /\ Len(frames) = Len(calls)
                      /\ completion = NoCompletion
                      /\ ~Settled
  /\ frames = <<>> => InFlight = {}
  /\ Settled => InFlight = {}
  /\ pc \notin {"awaitPreview", "awaitProduction"} => InFlight = {}

\* C15 witness: the first process has exited with failure and the retry's
\* process is in flight
OneProcessWitness ==
  /\ entry = "run"
  /\ Len(calls) = 2
  /\ calls[1].exit = "failure"
  /\ InFlight = {2}
  /\ calls[2].stdout # <<>>

----------------------------------------------------------------------------
(* Flag exclusivity *)

\* the positions of an argument list that hold the flag or the placeholder
DebugSlots(args) == { k \in 1..Len(args) : args[k] \in {"--debug", ""} }

\* C16: in the argument list of every invocation exactly one of "--debug" and
\* the empty-string placeholder appears: never both, never neither, and the
\* one that appears does so once.
FlagExclusivity ==
  \A i \in Calls :
    /\ HasArg(calls[i].args, "--debug") # HasArg(calls[i].args, "")
    /\ Cardinality(DebugSlots(calls[i].args)) = 1

\* C16 witness: the first attempt carried the placeholder without the flag,
\* its retry the flag without the placeholder
FlagExclusivityWitness ==
  /\ Len(calls) = 2
  /\ HasArg(calls[1].args, "") /\ ~HasArg(calls[1].args, "--debug")
  /\ HasArg(calls[2].args, "--debug") /\ ~HasArg(calls[2].args, "")

----------------------------------------------------------------------------
(* The credential file of a run *)

\* C17: in a run, every invocation of the tool carries
\* GOOGLE_APPLICATION_CREDENTIALS set to the file name createGacFile returned.
RunPassesCredentialFile ==
  entry = "run" =>
    \A i \in Calls :
      /\ "GOOGLE_APPLICATION_CREDENTIALS" \in DOMAIN calls[i].env
      /\ calls[i].env["GOOGLE_APPLICATION_CREDENTIALS"] = gacFilename

----------------------------------------------------------------------------
(* The finish callback *)

\* the finish callback rejected, or createCheck did: excluded by C18
FinishFailed == pc = "rejected" \/ thrown = Err("HttpError", "finish failed")

RunEnded == entry = "run" /\ pc = "done"

\* C18: in a run whose finish callback does not fail, finish is called at most
\* once and, when the run has ended, exactly once; its conclusion is "success"
\* iff nothing was thrown, and then setFailed was never called; otherwise it
\* is "failure" and setFailed was called once before it, with the message of
\* what was thrown; a run that has not ended can take a step; and once finish
\* has been called nothing more is reported.
FinishExactlyOnce ==
  /\ [](~FinishFailed =>
          /\ Len(finished) <= 1
          /\ finished # <<>> => RunEnded
          /\ pc \notin {"done", "rejected"} => ENABLED Next
          /\ RunEnded =>
               /\ Len(finished) = 1
               /\ finished[1].conclusion \in {"success", "failure"}
               /\ finished[1].conclusion = "success" <=> thrown = NoError
               /\ finished[1].conclusion = "success" => failed = <<>>
               /\ finished[1].conclusion = "failure" => failed = <<thrown.message>>)
  /\ [][finished # <<>> => UNCHANGED <<outputs, comments, failed, finished>>]_vars
  /\ [][ReportedSuccess' => failed' = <<>>]_vars

\* C18 witness: a preview run with a status check set its outputs, then a
\* later step threw, and the run ended with setFailed and one finish call
FinishWitness ==
  /\ RunEnded
  /\ finish = "check"
  /\ ~FinishFailed
  /\ outputs # <<>>
  /\ finished = <<Finish("failure", Undefined)>>
  /\ failed # <<>>

====
